---- MODULE Spec2Model ----
(***************************************************************************)
(* A model of the dataset curation pipeline of akash_ganga                 *)
(* (src/src/download_and_process_data.py): the label classifier            *)
(* check_class, the manifest reader row_generator, the directory labeler   *)
(* move_files_according_to_txt, the folder scaffolder                      *)
(* make_folders_from_labels, the train/validation splitter shuffle_data    *)
(* and the entry point __main__ that calls them in turn.                   *)
(*                                                                         *)
(* Paths are sequences of path components, a file system is the pair       *)
(* (files, dirs): files maps the path of every regular file to the         *)
(* identity of that file (the path it had in the source tree when the run  *)
(* started), dirs is the set of paths that are directories.                *)
(* Text that the code inspects character by character (a manifest token)   *)
(* is a sequence of one-character strings.                                 *)
(***************************************************************************)
EXTENDS Integers, Sequences, FiniteSets, TLC

VARIABLES
    files,          \* path -> identity of the regular file at that path
    dirs,           \* set of paths that are directories
    manifest,       \* EFIGI_attributes.txt: a sequence of lines (token sequences)
    verbose,        \* args.verbose[0]
    pc,             \* position of __main__ / of the function under test
    exc,            \* the uncaught exception that ended the run, or "none"
    mod_i,          \* index i of the loop over extensions in __main__
    gen,            \* state of the running row_generator
    count,          \* move_files_according_to_txt: count
    log,            \* what was printed so far: a set of <<text, detail>>
    data_split,     \* shuffle_data: data_split after validation (tenths)
    subfolders,     \* shuffle_data: class directories still to be visited
    train_class_dir,\* shuffle_data: class directory being split
    files_to_move,  \* shuffle_data: sampled files not moved yet
    hist,           \* per class directory: what was enumerated and drawn
    arg_data_split, \* args.data_split[0] as given (tenths)
    source0,        \* the image files of the source tree when the run started
    t_val,          \* check_class: the argument
    t_ret,          \* check_class: the outcome
    root_is_dir,    \* os.path.isdir of the --root_dir argument
    create_train_data,  \* args.create_train_data[0]
    manifest_exists,\* EFIGI_attributes.txt can be opened
    yielded,        \* the rows the running row_generator has yielded so far
    stages,         \* the calls of __main__ made so far, in order
    made,           \* the directory set after each make_folders_from_labels call
    arg_train_folder,       \* shuffle_data: train_folder
    arg_validation_folder   \* shuffle_data: validation_folder

vars == <<files, dirs, manifest, verbose, pc, exc, mod_i, gen, count, log,
          data_split, subfolders, train_class_dir, files_to_move, hist,
          arg_data_split, source0, t_val, t_ret, root_is_dir,
          create_train_data, manifest_exists, yielded, stages, made,
          arg_train_folder, arg_validation_folder>>

----------------------------------------------------------------------------
(* Bounds of the model *)

\* morphology indices run over -MaxAbsIdx .. MaxAbsIdx
MaxAbsIdx == 13

----------------------------------------------------------------------------
(* Text and numbers *)

DigitChars == <<"0", "1", "2", "3", "4", "5", "6", "7", "8", "9">>

IsDigit(c) == \E i \in 1..Len(DigitChars) : DigitChars[i] = c

DigitVal(c) == (CHOOSE i \in 1..Len(DigitChars) : DigitChars[i] = c) - 1

RECURSIVE DigitsValue(_)
DigitsValue(s) ==
    IF s = <<>> THEN 0
    ELSE DigitsValue(SubSeq(s, 1, Len(s) - 1)) * Len(DigitChars) + DigitVal(s[Len(s)])

\* non-integer numbers (a float index, data_split) are fixed-point numbers with
\* one decimal digit: the number m stands for m / Scale
Scale == Len(DigitChars)

\* str(n) for a natural number
RECURSIVE NatText(_)
NatText(n) ==
    IF n < Len(DigitChars) THEN <<DigitChars[n + 1]>>
    ELSE NatText(n \div Len(DigitChars)) \o <<DigitChars[(n % Len(DigitChars)) + 1]>>

\* str(n) for an integer: the decimal text the manifest carries
IntText(n) == IF n < 0 THEN <<"-">> \o NatText(-n) ELSE NatText(n)

\* the decimal text of the fixed-point number m / Scale (one fractional part)
FixedText(m) ==
    LET a == IF m < 0 THEN -m ELSE m
    IN  (IF m < 0 THEN <<"-">> ELSE <<>>)
            \o NatText(a \div Scale) \o <<".">> \o NatText(a % Scale)

\* the characters joined into one string
RECURSIVE Str(_)
Str(cs) == IF cs = <<>> THEN "" ELSE Head(cs) \o Str(Tail(cs))

----------------------------------------------------------------------------
(* check_class *)

Labels == <<"ELLIPTICAL", "LENTICULAR", "SPIRAL", "IRREGULAR", "DWARF">>

\* Values handed to check_class: an int, a float (num / Scale) or a str.
IntVal(n)   == [kind |-> "int",   num |-> n, text |-> <<>>]
FloatVal(m) == [kind |-> "float", num |-> m, text |-> <<>>]
StrVal(s)   == [kind |-> "str",   num |-> 0, text |-> s]

\* int(x): an int is kept, a float is truncated toward zero, a str must be
\* an optional sign followed by decimal digits, else ValueError.
py_int_trunc(m) == IF m < 0 THEN -((-m) \div Scale) ELSE m \div Scale

py_int(x) ==
    IF x.kind = "int" THEN [ok |-> TRUE, val |-> x.num]
    ELSE IF x.kind = "float" THEN [ok |-> TRUE, val |-> py_int_trunc(x.num)]
    ELSE LET s    == x.text
             sgn  == s # <<>> /\ s[1] \in {"+", "-"}
             body == IF sgn THEN Tail(s) ELSE s
         IN  IF body # <<>> /\ \A i \in 1..Len(body) : IsDigit(body[i])
             THEN [ok |-> TRUE,
                   val |-> IF sgn /\ s[1] = "-" THEN -DigitsValue(body)
                           ELSE DigitsValue(body)]
             ELSE [ok |-> FALSE, val |-> 0]

InvalidTval == <<"Error: Inavlid t_val ...", <<>>>>

UnexpectedRange(v) == <<"Error: Unexpected range for t_val", IntText(v)>>

Returned(label) == [ret |-> label, exc |-> "none", out |-> {}]

\* the legacy table of download_and_sort_EIFIGI_raw_data.py, for comparison
check_class_legacy(v) ==
    IF v < -3 THEN Returned("ELLIPTICAL")
    ELSE IF v < 0 THEN Returned("LENTICULAR")
    ELSE IF v < 10 THEN Returned("SPIRAL")
    ELSE IF v = 10 THEN Returned("IRREGULAR")
    ELSE IF v = 11 THEN Returned("DWARF")
    ELSE [ret |-> "None", exc |-> "none", out |-> {UnexpectedRange(v)}]

\* the chain of comparisons of check_class on a coerced index
check_class_ranges(v) ==
    IF v < -3 THEN Returned("ELLIPTICAL")
    ELSE IF -3 <= v /\ v < 0 THEN Returned("LENTICULAR")
    ELSE IF 0 <= v /\ v < 9 THEN Returned("SPIRAL")
    ELSE IF 9 <= v /\ v <= 10 THEN Returned("IRREGULAR")
    ELSE IF v = 11 THEN Returned("DWARF")
    ELSE [ret |-> "None", exc |-> "none", out |-> {UnexpectedRange(v)}]

\* check_class(t_val): when int() raises ValueError the message is printed,
\* t_val stays a str and the first comparison, str < int, raises TypeError.
check_class(x) ==
    LET c == py_int(x)
    IN  IF c.ok THEN check_class_ranges(c.val)
        ELSE [ret |-> "None", exc |-> "TypeError", out |-> {InvalidTval}]


----------------------------------------------------------------------------
(* Paths and the file system *)

Parent(p) == SubSeq(p, 1, Len(p) - 1)

Basename(p) == p[Len(p)]

\* p and every directory above it
Ancestors(p) == {SubSeq(p, 1, i) : i \in 1..Len(p)}

\* os.path.exists
exists(F, D, p) == p \in DOMAIN F \/ p \in D

\* the entries directly inside directory d
Entries(F, D, d) == {p \in DOMAIN F \cup D : Len(p) = Len(d) + 1 /\ Parent(p) = d}

\* os.rename(src, dst) between regular files: dst is replaced when present
rename(F, src, dst) ==
    [p \in (DOMAIN F \ {src}) \cup {dst} |-> IF p = dst THEN F[src] ELSE F[p]]

\* shutil.move(src, dst): into dst when dst is a directory (shutil.Error when
\* the name is taken there), else a rename; a regular file on the way to the
\* destination surfaces as NotADirectoryError, a missing parent directory as
\* FileNotFoundError.
shutil_move(F, D, src, dst) ==
    LET real_dst == IF dst \in D THEN dst \o <<Basename(src)>> ELSE dst
    IN  IF dst \in D /\ exists(F, D, real_dst)
        THEN [files |-> F, exc |-> "shutil.Error"]
        ELSE IF \E a \in Ancestors(Parent(real_dst)) : a \in DOMAIN F
        THEN [files |-> F, exc |-> "NotADirectoryError"]
        ELSE IF Parent(real_dst) \notin D
        THEN [files |-> F, exc |-> "FileNotFoundError"]
        ELSE [files |-> rename(F, src, real_dst), exc |-> "none"]

\* make_folder with its test the wrong way round: os.makedirs is not reached
\* for a path that does not exist
make_folder_inverted(F, D, input_dir) ==
    IF ~exists(F, D, input_dir) THEN [dirs |-> D, out |-> {}]
    ELSE [dirs |-> D, out |-> {<<"Failed to create directory", input_dir>>}]

\* make_folder(input_dir): os.makedirs when the path does not exist; an
\* OSError (a regular file in the way) is caught and printed.
make_folder(F, D, input_dir) ==
    IF exists(F, D, input_dir) THEN [dirs |-> D, out |-> {}]
    ELSE IF \E a \in Ancestors(input_dir) : a \in DOMAIN F
    THEN [dirs |-> D, out |-> {<<"Failed to create directory", input_dir>>}]
    ELSE [dirs |-> D \cup Ancestors(input_dir), out |-> {}]

----------------------------------------------------------------------------
(* Program constants of __main__ *)

root_dir == <<"r">>

data_dir == root_dir \o <<"data", "raw", "efigi-1.6">>

train_folder == root_dir \o <<"train">>

validation_folder == root_dir \o <<"validation">>

image_folders == <<"png", "ima_g", "ima_i", "ima_u", "ima_z", "ima_r">>

NoExtension == "None"

extensions == <<NoExtension, "g", "i", "u", "z", "r">>

----------------------------------------------------------------------------
(* The manifest and row_generator *)

\* str.startswith('#') on a line given as its tokens
StartsWithHash(line) == line # <<>> /\ line[1] # <<>> /\ line[1][1] = "#"

\* the generator before its first next(): the file was just opened
NewGenerator == [phase |-> "skipping", pos |-> 1]

NoGenerator == [phase |-> "closed", pos |-> 0]

\* the first loop as an if: one comment row at most is skipped
SkipComments_once(m, i) ==
    IF i <= Len(m) /\ StartsWithHash(m[i]) THEN i + 1 ELSE i

\* The line the first while loop of row_generator stops at, reading from
\* line i: the first line that does not start with '#' (Len + 1: end of file).
RECURSIVE SkipComments(_, _)
SkipComments(m, i) ==
    IF i <= Len(m) /\ StartsWithHash(m[i]) THEN SkipComments(m, i + 1) ELSE i

\* a generator that is a single filter: every row that starts with '#' is
\* left out, wherever it stands
row_generator_filter(m, g) ==
    LET at == SkipComments(m, g.pos)
    IN  IF at > Len(m)
        THEN [stop |-> TRUE, row |-> <<>>, gen |-> [phase |-> "closed", pos |-> at]]
        ELSE [stop |-> FALSE, row |-> m[at],
              gen |-> [phase |-> "passthrough", pos |-> at + 1]]

\* next(g) on the generator g over manifest m: the row yielded, or stop
\* (StopIteration) when readline() returned '' at the end of the file.
row_generator(m, g) ==
    LET at == IF g.phase = "skipping" THEN SkipComments(m, g.pos) ELSE g.pos
    IN  IF at > Len(m)
        THEN [stop |-> TRUE, row |-> <<>>, gen |-> [phase |-> "closed", pos |-> at]]
        ELSE [stop |-> FALSE, row |-> m[at],
              gen |-> [phase |-> "passthrough", pos |-> at + 1]]

----------------------------------------------------------------------------
(* Inputs of a run *)

\* a manifest has at most MaxRows lines
MaxRows == 2

SampleIds == {<<"A">>, <<"A", "_", "g">>}

IndexTokens == {IntText(-4), IntText(5), IntText(12), <<"x">>}

CommentLine == << <<"#">>, <<"x">> >>

BlankLine == <<>>

Lines == {<<id, t>> : id \in SampleIds, t \in IndexTokens}
             \cup {CommentLine, BlankLine}

Manifests == UNION {[1..n -> Lines] : n \in 0..MaxRows}

\* image_fname of move_files_according_to_txt
image_fname_of(id, extension) ==
    IF extension = NoExtension THEN Str(id) \o ".png"
    ELSE Str(id) \o "_" \o extension \o ".png"

\* the image folders that may hold files when the run starts
SourceFolders == {1, 2}

SourceCandidates ==
    {data_dir \o <<image_folders[i], image_fname_of(id, extensions[i])>> :
        i \in SourceFolders, id \in SampleIds}

\* a tree of regular files, each file its own identity
TreeOf(paths) == [p \in paths |-> p]

SourceDirs == UNION {Ancestors(data_dir \o <<image_folders[i]>>) :
                        i \in 1..Len(image_folders)}

\* the requested data_split values, in tenths
DataSplits == {-5, 0, 3, 5, 7, 10, 15}

DefaultSplit == 2

----------------------------------------------------------------------------
(* make_folders_from_labels *)

\* The directories the commands list names when the loop over label_classes
\* has ended: every iteration rebinds commands, so the list holds the two
\* mkdir -p commands of the last label only.
make_folders_commands(label_classes) ==
    LET label_class == label_classes[Len(label_classes)]
    IN  <<train_folder \o <<label_class>>, validation_folder \o <<label_class>>>>

\* execute_in_shell on those commands: mkdir -p creates the directory and
\* what is missing above it
execute_mkdirs(D, commands) ==
    D \cup UNION {Ancestors(commands[j]) : j \in 1..Len(commands)}

\* mkdir without -p: a directory that is there already is an error too
mkdir_errors_plain(F, D, commands) ==
    {<<"mkdir: cannot create directory", commands[j]>> :
        j \in {i \in 1..Len(commands) :
                  \/ \E a \in Ancestors(commands[i]) : a \in DOMAIN F
                  \/ commands[i] \in D}}

\* what the mkdir -p processes write to the terminal: a command fails when
\* a regular file is on its path (the exit status is not looked at)
mkdir_errors(F, D, commands) ==
    {<<"mkdir: cannot create directory", commands[j]>> :
        j \in {i \in 1..Len(commands) :
                  \E a \in Ancestors(commands[i]) : a \in DOMAIN F}}

\* make_folders_from_labels(root_dir, verbose, label_classes) on the file
\* system (F, D): the directories afterwards and what was printed
make_folders_from_labels(F, D, vb, label_classes) ==
    LET commands == make_folders_commands(label_classes)
        done == SelectSeq(commands,
                          LAMBDA c : \A a \in Ancestors(c) : a \notin DOMAIN F)
    IN  [dirs |-> execute_mkdirs(D, done),
         out |-> mkdir_errors(F, D, commands)
                    \cup (IF vb THEN {<<"Make Organisational Folders", <<>>>>}
                          ELSE {})]

Moving(i) == IF verbose THEN {<<"Moving images from", <<image_folders[i]>>>>} ELSE {}

MakeFoldersFromLabels ==
    /\ pc = "scaffold"
    /\ LET r == make_folders_from_labels(files, dirs, verbose, Labels)
       IN  /\ dirs' = r.dirs
           /\ log' = log \cup r.out \cup Moving(1)
           /\ made' = Append(made, r.dirs)
    /\ stages' = Append(stages, "make_folders_from_labels")
    /\ pc' = "label"
    /\ mod_i' = 1
    /\ gen' = NewGenerator
    /\ yielded' = <<>>
    /\ count' = 0
    /\ UNCHANGED <<files, manifest, verbose, exc, data_split, subfolders,
                   train_class_dir, files_to_move, hist, arg_data_split,
                   source0, root_is_dir, create_train_data, manifest_exists,
                   arg_train_folder, arg_validation_folder, t_val, t_ret>>

----------------------------------------------------------------------------
(* move_files_according_to_txt *)

\* One pass of the loop body over the tokens of a yielded line, for the
\* i-th image folder: the file system afterwards, what was printed and the
\* exception that left the function, if any.
move_one(F, D, attributes, i, vb) ==
    LET extension == extensions[i]
        image_dir == image_folders[i]
        raised(e, o) == [files |-> F, dirs |-> D, out |-> o, exc |-> e]
    IN  IF Len(attributes) < 2 THEN raised("IndexError", {})
        ELSE
        LET image_fname == image_fname_of(attributes[1], extension)
            c == check_class(StrVal(attributes[2]))
        IN  IF c.exc # "none" THEN raised(c.exc, c.out)
            ELSE IF c.ret = "None" THEN raised("AttributeError", c.out)
            ELSE
            LET current_image_path == data_dir \o <<image_dir, image_fname>>
                class_dir == train_folder \o <<c.ret>>
                dest_image_path == class_dir \o <<image_fname>>
                mk == make_folder(F, D, class_dir)
            IN  IF current_image_path \in DOMAIN F
                THEN LET mv == shutil_move(F, mk.dirs, current_image_path,
                                           dest_image_path)
                     IN  IF mv.exc = "FileNotFoundError"
                         THEN [files |-> F, dirs |-> mk.dirs, exc |-> "none",
                               out |-> c.out \cup mk.out \cup
                                   (IF vb THEN {<<"Failed to move", current_image_path>>}
                                    ELSE {})]
                         ELSE [files |-> mv.files, dirs |-> mk.dirs,
                               exc |-> mv.exc, out |-> c.out \cup mk.out]
                ELSE [files |-> F, dirs |-> mk.dirs, exc |-> "none",
                      out |-> c.out \cup mk.out \cup
                          (IF vb THEN {<<"File not found", current_image_path>>}
                           ELSE {})]

\* the loop body for the next line the generator yields
MoveFilesRecord ==
    /\ pc = "label"
    /\ manifest_exists
    /\ LET nx == row_generator(manifest, gen)
       IN  /\ ~nx.stop
           /\ LET r == move_one(files, dirs, nx.row, mod_i, verbose)
              IN  /\ files' = r.files
                  /\ dirs' = r.dirs
                  /\ exc' = r.exc
                  /\ pc' = IF r.exc = "none" THEN "label" ELSE "crashed"
                  /\ count' = IF r.exc = "none" THEN count + 1 ELSE count
                  /\ log' = log \cup r.out \cup
                        (IF r.exc = "none" /\ (count + 1) % 100 = 0 /\ verbose
                         THEN {<<"Found a total of", IntText(count + 1)>>} ELSE {})
           /\ gen' = nx.gen
           /\ yielded' = Append(yielded, nx.row)
    /\ UNCHANGED <<manifest, verbose, mod_i, data_split, subfolders,
                   train_class_dir, files_to_move, hist, arg_data_split,
                   source0, root_is_dir, create_train_data, manifest_exists,
                   stages, made, arg_train_folder, arg_validation_folder,
                   t_val, t_ret>>

\* open(filepath) fails at the first next() of the generator: the
\* FileNotFoundError leaves move_files_according_to_txt and ends the run
MoveFilesOpenFails ==
    /\ pc = "label"
    /\ ~manifest_exists
    /\ gen = NewGenerator
    /\ exc' = "FileNotFoundError"
    /\ pc' = "crashed"
    /\ gen' = NoGenerator
    /\ UNCHANGED <<files, dirs, manifest, verbose, mod_i, count, log, data_split,
                   subfolders, train_class_dir, files_to_move, hist,
                   arg_data_split, source0, root_is_dir, create_train_data,
                   manifest_exists, yielded, stages, made, arg_train_folder,
                   arg_validation_folder, t_val, t_ret>>

\* what another process or the operating system can do to a move
MoveFailures == {"FileNotFoundError", "PermissionError"}

\* the loop body for the next line when the environment makes the move
\* fail: the source file vanished after os.path.exists answered (os.rename
\* raises FileNotFoundError, which is caught), or the permission is refused
\* (PermissionError, which nothing catches)
MoveFilesRecordOSError ==
    /\ pc = "label"
    /\ manifest_exists
    /\ LET nx == row_generator(manifest, gen)
       IN  /\ ~nx.stop
           /\ Len(nx.row) >= 2
           /\ LET c == check_class(StrVal(nx.row[2]))
                  current_image_path ==
                      data_dir \o <<image_folders[mod_i],
                                    image_fname_of(nx.row[1], extensions[mod_i])>>
                  mk == make_folder(files, dirs, train_folder \o <<c.ret>>)
              IN  /\ c.exc = "none"
                  /\ c.ret # "None"
                  /\ current_image_path \in DOMAIN files
                  /\ dirs' = mk.dirs
                  /\ \E e \in MoveFailures :
                        IF e = "FileNotFoundError"
                        THEN /\ files' = [p \in DOMAIN files \ {current_image_path}
                                            |-> files[p]]
                             /\ exc' = "none"
                             /\ pc' = "label"
                             /\ count' = count + 1
                             /\ log' = log \cup mk.out \cup
                                   (IF verbose
                                    THEN {<<"Failed to move", current_image_path>>}
                                    ELSE {})
                        ELSE /\ files' = files
                             /\ exc' = e
                             /\ pc' = "crashed"
                             /\ count' = count
                             /\ log' = log \cup mk.out
           /\ gen' = nx.gen
           /\ yielded' = Append(yielded, nx.row)
    /\ UNCHANGED <<manifest, verbose, mod_i, data_split, subfolders,
                   train_class_dir, files_to_move, hist, arg_data_split,
                   source0, root_is_dir, create_train_data, manifest_exists,
                   stages, made, arg_train_folder, arg_validation_folder,
                   t_val, t_ret>>

\* the loop left after its first pass (shuffle_data called inside the loop)
more_modalities_first(i) == i < 1

\* for i in range(0, len(extensions)): a further pass follows pass i
more_modalities(i) == i < Len(extensions)

\* the generator is exhausted: the call returns and __main__ goes on with the
\* next image folder, or with shuffle_data after the last one
MoveFilesReturn ==
    /\ pc = "label"
    /\ manifest_exists
    /\ row_generator(manifest, gen).stop
    /\ stages' = Append(stages, image_folders[mod_i])
    /\ yielded' = <<>>
    /\ IF more_modalities(mod_i)
       THEN /\ mod_i' = mod_i + 1
            /\ gen' = NewGenerator
            /\ log' = log \cup Moving(mod_i + 1)
            /\ pc' = "label"
       ELSE /\ mod_i' = mod_i
            /\ gen' = NoGenerator
            /\ log' = log
            /\ pc' = "shuffle"
    /\ count' = 0
    /\ UNCHANGED <<files, dirs, manifest, verbose, exc, data_split, subfolders,
                   train_class_dir, files_to_move, hist, arg_data_split,
                   source0, root_is_dir, create_train_data, manifest_exists,
                   made, arg_train_folder, arg_validation_folder, t_val, t_ret>>

----------------------------------------------------------------------------
(* shuffle_data *)

\* a class directory holds at most MaxFiles files when the splitter is run
\* on a training tree of its own
MaxFiles == 5

\* str.split("/train/") on a path: component i is a separator when it is
\* "train", is followed by a further component and its leading slash was not
\* taken by a separator just before it
RECURSIVE IsTrainSep(_, _)
IsTrainSep(p, i) ==
    /\ p[i] = "train"
    /\ i < Len(p)
    /\ (i = 1 \/ ~IsTrainSep(p, i - 1))

TrainSeps(p) == {i \in 1..Len(p) : IsTrainSep(p, i)}

\* file_dir.split("/train/")[0] + "/validation/" + file_dir.split("/train/")[-1]
destination_dir_of(file_dir) ==
    LET seps  == TrainSeps(file_dir)
        first == CHOOSE i \in seps : \A j \in seps : i <= j
        last  == CHOOSE i \in seps : \A j \in seps : j <= i
    IN  IF seps = {} THEN file_dir \o <<"validation">> \o file_dir
        ELSE SubSeq(file_dir, 1, first - 1) \o <<"validation">>
                 \o SubSeq(file_dir, last + 1, Len(file_dir))

\* int(data_split * float(total_num)) rounded up instead of down
number_of_validation_ceil(ds, total_num) == (ds * total_num + Scale - 1) \div Scale

\* int(data_split * float(total_num))
number_of_validation(ds, total_num) == (ds * total_num) \div Scale

\* random.sample(images, k): any k distinct elements
Samples(images, k) == {S \in SUBSET images : Cardinality(S) = k}

SplitMessage(f) ==
    IF ~verbose THEN {}
    ELSE IF 0 < f /\ f < Scale
    THEN {<<"Training data generated using default train-validation split of",
            IntText(f)>>}
    ELSE {<<"Please input a data_split value between 0 and 1 ...", <<>>>>,
          <<"Training data generated using default train-validation split of 20% ...",
            <<>>>>}

\* shuffle_data up to the enumeration of the class directories
ShuffleBegin ==
    /\ pc = "shuffle"
    /\ \E f \in DataSplits :
        /\ arg_data_split' = f
        /\ data_split' = IF 0 < f /\ f < Scale THEN f ELSE DefaultSplit
        /\ log' = log \cup SplitMessage(f)
    /\ stages' = Append(stages, "shuffle_data")
    /\ IF arg_train_folder \in dirs
       THEN /\ subfolders' = {d \in Entries(files, dirs, arg_train_folder) :
                                  d \in dirs}
            /\ pc' = "shuffle_loop"
            /\ exc' = exc
       ELSE /\ subfolders' = {}
            /\ pc' = "shuffle_crashed"
            /\ exc' = "FileNotFoundError"
    /\ UNCHANGED <<files, dirs, manifest, verbose, mod_i, gen, count,
                   train_class_dir, files_to_move, hist, source0, root_is_dir,
                   create_train_data, manifest_exists, yielded, made,
                   arg_train_folder, arg_validation_folder, t_val, t_ret>>

Remaining(d) ==
    IF verbose THEN {<<"After transfering images for validation", d>>} ELSE {}

\* the head of the loop over subfolders: enumerate one class directory and
\* draw the files to move
ShuffleClass ==
    /\ pc = "shuffle_loop"
    /\ \E d \in subfolders :
        LET images == Entries(files, dirs, d)
            total_num == Cardinality(images)
            k == number_of_validation(data_split, total_num)
        IN  \E S \in Samples(images, k) :
              /\ subfolders' = subfolders \ {d}
              /\ train_class_dir' = d
              /\ files_to_move' = S
              /\ hist' = [c \in DOMAIN hist \cup {d} |->
                            IF c = d THEN [images |-> images, drawn |-> S]
                            ELSE hist[c]]
              /\ log' = log \cup (IF verbose
                                  THEN {<<"has images", d \o IntText(total_num)>>}
                                  ELSE {})
                            \cup (IF S = {} THEN Remaining(d) ELSE {})
              /\ pc' = IF S = {} THEN "shuffle_loop" ELSE "shuffle_move"
    /\ UNCHANGED <<files, dirs, manifest, verbose, exc, mod_i, gen, count,
                   data_split, arg_data_split, source0, root_is_dir,
                   create_train_data, manifest_exists, yielded, stages, made,
                   arg_train_folder, arg_validation_folder, t_val, t_ret>>

\* one pass of the loop over files_to_move
ShuffleMove ==
    /\ pc = "shuffle_move"
    /\ \E file_dir \in files_to_move :
        LET destination_dir == destination_dir_of(file_dir)
            mk == make_folder(files, dirs, destination_dir)
            mv == shutil_move(files, mk.dirs, file_dir, destination_dir)
            rest == files_to_move \ {file_dir}
        IN  /\ dirs' = mk.dirs
            /\ files' = mv.files
            /\ exc' = mv.exc
            /\ files_to_move' = rest
            /\ log' = log \cup mk.out
                          \cup (IF mv.exc = "none" /\ rest = {}
                                THEN Remaining(train_class_dir) ELSE {})
            /\ pc' = IF mv.exc # "none" THEN "shuffle_crashed"
                     ELSE IF rest = {} THEN "shuffle_loop" ELSE "shuffle_move"
    /\ UNCHANGED <<manifest, verbose, mod_i, gen, count, data_split, subfolders,
                   train_class_dir, hist, arg_data_split, source0, root_is_dir,
                   create_train_data, manifest_exists, yielded, stages, made,
                   arg_train_folder, arg_validation_folder,
                   t_val, t_ret>>

\* every class directory was visited: shuffle_data returns None
ShuffleReturn ==
    /\ pc = "shuffle_loop"
    /\ subfolders = {}
    /\ pc' = "done"
    /\ UNCHANGED <<files, dirs, manifest, verbose, exc, mod_i, gen, count, log,
                   data_split, subfolders, train_class_dir, files_to_move, hist,
                   arg_data_split, source0, root_is_dir,
                   create_train_data, manifest_exists, yielded, stages, made,
                   arg_train_folder, arg_validation_folder, t_val, t_ret>>

----------------------------------------------------------------------------
(* check_class called on its own *)

CheckClassInputs ==
    {IntVal(n) : n \in -MaxAbsIdx..MaxAbsIdx}
        \cup {StrVal(IntText(n)) : n \in -MaxAbsIdx..MaxAbsIdx}
        \cup {FloatVal(m) : m \in -MaxAbsIdx * Scale..MaxAbsIdx * Scale}
        \cup {StrVal(FixedText(m)) : m \in -MaxAbsIdx * Scale..MaxAbsIdx * Scale}

NotCalled == [ret |-> "None", exc |-> "not called", out |-> {}]

CheckClassCall ==
    /\ pc = "check_class"
    /\ t_ret' = check_class(t_val)
    /\ pc' = "returned"
    /\ UNCHANGED <<files, dirs, manifest, verbose, exc, mod_i, gen, count, log,
                   data_split, subfolders, train_class_dir, files_to_move, hist,
                   arg_data_split, source0, root_is_dir,
                   create_train_data, manifest_exists, yielded, stages, made,
                   arg_train_folder, arg_validation_folder, t_val>>

----------------------------------------------------------------------------
(* The entry point *)

\* is_valid_dir(parser, arg), the type of --root_dir: parser.error prints the
\* usage and ends the process with status 2 (SystemExit is not a NameError)
is_valid_dir(isdir) ==
    IF isdir THEN [ret |-> "arg", exit |-> -1]
    ELSE [ret |-> "None", exit |-> 2]

\* get_user_options() and the head of __main__, up to the test of
\* create_train_data (fetch_raw_data is False: nothing is downloaded)
GetUserOptions ==
    /\ pc = "start"
    /\ LET r == is_valid_dir(root_is_dir)
       IN  pc' = IF r.exit >= 0 THEN "usage_error"
                 ELSE IF r.ret = "None" THEN "invalid_root"
                 ELSE IF create_train_data THEN "scaffold"
                 ELSE "done"
    /\ UNCHANGED <<files, dirs, manifest, verbose, exc, mod_i, gen, count, log,
                   data_split, subfolders, train_class_dir, files_to_move, hist,
                   arg_data_split, source0, root_is_dir, create_train_data,
                   manifest_exists, yielded, stages, made, arg_train_folder,
                   arg_validation_folder, t_val, t_ret>>

\* the exit status of the process: 2 from parser.error, 1 from sys.exit(1)
\* and from an uncaught exception, 0 when __main__ runs to its end, -1 while
\* it is running
ExitCode ==
    IF pc = "usage_error" THEN 2
    ELSE IF pc \in {"invalid_root", "crashed", "shuffle_crashed"} THEN 1
    ELSE IF pc = "done" THEN 0
    ELSE -1

----------------------------------------------------------------------------
(* row_generator and make_folders_from_labels called on their own *)

\* a function under test on its own is called at most MaxCalls times
MaxCalls == 2

DataLine == << <<"A">>, IntText(5) >>

RowLines == {CommentLine, BlankLine, DataLine}

RowManifests == UNION {[1..n -> RowLines] : n \in 0..MaxRows + 1}

\* next() on the running generator yields a row
RowNext ==
    /\ pc = "rows"
    /\ manifest_exists
    /\ gen.phase # "closed"
    /\ LET nx == row_generator(manifest, gen)
       IN  /\ ~nx.stop
           /\ yielded' = Append(yielded, nx.row)
           /\ gen' = nx.gen
    /\ UNCHANGED <<files, dirs, manifest, verbose, pc, exc, mod_i, count, log,
                   data_split, subfolders, train_class_dir, files_to_move, hist,
                   arg_data_split, source0, root_is_dir, create_train_data,
                   manifest_exists, stages, made, arg_train_folder,
                   arg_validation_folder, t_val, t_ret>>

\* next() on the running generator raises StopIteration: the file is closed
RowStop ==
    /\ pc = "rows"
    /\ manifest_exists
    /\ gen.phase # "closed"
    /\ LET nx == row_generator(manifest, gen)
       IN  /\ nx.stop
           /\ gen' = nx.gen
    /\ UNCHANGED <<files, dirs, manifest, verbose, pc, exc, mod_i, count, log,
                   data_split, subfolders, train_class_dir, files_to_move, hist,
                   arg_data_split, source0, root_is_dir, create_train_data,
                   manifest_exists, yielded, stages, made, arg_train_folder,
                   arg_validation_folder, t_val, t_ret>>

\* the first next() on a generator whose file cannot be opened
RowOpenFails ==
    /\ pc = "rows"
    /\ ~manifest_exists
    /\ gen = NewGenerator
    /\ exc' = "FileNotFoundError"
    /\ pc' = "crashed"
    /\ gen' = NoGenerator
    /\ UNCHANGED <<files, dirs, manifest, verbose, mod_i, count, log, data_split,
                   subfolders, train_class_dir, files_to_move, hist,
                   arg_data_split, source0, root_is_dir, create_train_data,
                   manifest_exists, yielded, stages, made, arg_train_folder,
                   arg_validation_folder, t_val, t_ret>>

\* row_generator(filepath) is called again, wherever the generator of the
\* call before it has got to; mod_i counts the calls
RowInvoke ==
    /\ pc = "rows"
    /\ mod_i < MaxCalls
    /\ mod_i' = mod_i + 1
    /\ gen' = NewGenerator
    /\ yielded' = <<>>
    /\ UNCHANGED <<files, dirs, manifest, verbose, pc, exc, count, log,
                   data_split, subfolders, train_class_dir, files_to_move, hist,
                   arg_data_split, source0, root_is_dir, create_train_data,
                   manifest_exists, stages, made, arg_train_folder,
                   arg_validation_folder, t_val, t_ret>>

\* make_folders_from_labels called on a tree, once more than before
ScaffolderCall ==
    /\ pc = "make_folders"
    /\ Len(made) < MaxCalls
    /\ LET r == make_folders_from_labels(files, dirs, verbose, Labels)
       IN  /\ dirs' = r.dirs
           /\ log' = r.out
           /\ made' = Append(made, r.dirs)
    /\ stages' = Append(stages, "make_folders_from_labels")
    /\ UNCHANGED <<files, manifest, verbose, pc, exc, mod_i, gen, count,
                   data_split, subfolders, train_class_dir, files_to_move, hist,
                   arg_data_split, source0, root_is_dir, create_train_data,
                   manifest_exists, yielded, arg_train_folder,
                   arg_validation_folder, t_val, t_ret>>

----------------------------------------------------------------------------
(* Specifications *)

EmptyTree == TreeOf({})

\* the state of the variables a specification does not say more about
Idle ==
    /\ exc = "none"
    /\ mod_i = 0
    /\ gen = NoGenerator
    /\ count = 0
    /\ log = {}
    /\ data_split = DefaultSplit
    /\ arg_data_split = DefaultSplit
    /\ subfolders = {}
    /\ train_class_dir = <<>>
    /\ files_to_move = {}
    /\ hist = EmptyTree
    /\ yielded = <<>>
    /\ stages = <<>>
    /\ made = <<>>

\* the directories of the raw data under a valid root
RawTree == Ancestors(root_dir) \cup SourceDirs

\* the whole pipeline: __main__ on a root that is a directory or not; a valid
\* root holds the raw data directory with some of the images the manifest
\* names, and the manifest when it can be opened
Init ==
    /\ root_is_dir \in BOOLEAN
    /\ create_train_data \in BOOLEAN
    /\ manifest_exists \in (IF root_is_dir THEN BOOLEAN ELSE {FALSE})
    /\ manifest \in (IF manifest_exists THEN Manifests ELSE {<<>>})
    /\ source0 \in (IF root_is_dir THEN SUBSET SourceCandidates ELSE {{}})
    /\ files = TreeOf(source0)
    /\ dirs = (IF root_is_dir THEN RawTree ELSE {})
    /\ verbose \in BOOLEAN
    /\ pc = "start"
    /\ arg_train_folder = train_folder
    /\ arg_validation_folder = validation_folder
    /\ t_val = IntVal(0)
    /\ t_ret = NotCalled
    /\ Idle

Next ==
    \/ GetUserOptions
    \/ MakeFoldersFromLabels
    \/ MoveFilesRecord
    \/ MoveFilesOpenFails
    \/ MoveFilesReturn
    \/ ShuffleBegin
    \/ ShuffleClass
    \/ ShuffleMove
    \/ ShuffleReturn

Spec == Init /\ [][Next]_vars

\* the pipeline in an environment that can make a move of the labeler fail
NextEnv ==
    \/ Next
    \/ MoveFilesRecordOSError

SpecEnv == Init /\ [][NextEnv]_vars

\* shuffle_data on a populated training tree
ImageName(j) == Str(<<"f">> \o NatText(j)) \o ".png"

ClassFiles(label, n) == {train_folder \o <<label, ImageName(j)>> : j \in 1..n}

InitShuffle ==
    /\ \E n1 \in 0..MaxFiles, n2 \in 0..2 :
          files = TreeOf(ClassFiles("SPIRAL", n1) \cup ClassFiles("DWARF", n2))
    /\ \E v \in SUBSET {validation_folder} :
          dirs = Ancestors(train_folder \o <<"SPIRAL">>)
                    \cup Ancestors(train_folder \o <<"DWARF">>) \cup v
    /\ source0 = {}
    /\ manifest = <<>>
    /\ manifest_exists = TRUE
    /\ root_is_dir = TRUE
    /\ create_train_data = TRUE
    /\ verbose \in BOOLEAN
    /\ pc = "shuffle"
    /\ arg_train_folder = train_folder
    /\ arg_validation_folder = validation_folder
    /\ t_val = IntVal(0)
    /\ t_ret = NotCalled
    /\ Idle

NextShuffle ==
    \/ ShuffleBegin
    \/ ShuffleClass
    \/ ShuffleMove
    \/ ShuffleReturn

SpecShuffle == InitShuffle /\ [][NextShuffle]_vars

\* shuffle_data called with training and validation roots of the caller's
\* choice: the pair of __main__, a validation root of another name, a
\* training root of another name, a training root below a directory train
TrainRoots == {train_folder, root_dir \o <<"training">>,
               <<"train">> \o root_dir \o <<"train">>}

ValidationRoots == {validation_folder, root_dir \o <<"val">>}

ClassFilesIn(tf, label, n) == {tf \o <<label, ImageName(j)>> : j \in 1..n}

InitShuffleArgs ==
    /\ arg_train_folder \in TrainRoots
    /\ arg_validation_folder \in ValidationRoots
    /\ \E n1 \in 0..MaxFiles - 2, n2 \in 0..1 :
          files = TreeOf(ClassFilesIn(arg_train_folder, "SPIRAL", n1)
                            \cup ClassFilesIn(arg_train_folder, "DWARF", n2))
    /\ dirs = Ancestors(arg_train_folder \o <<"SPIRAL">>)
                 \cup Ancestors(arg_train_folder \o <<"DWARF">>)
                 \cup Ancestors(arg_validation_folder)
    /\ source0 = {}
    /\ manifest = <<>>
    /\ manifest_exists = TRUE
    /\ root_is_dir = TRUE
    /\ create_train_data = TRUE
    /\ verbose \in BOOLEAN
    /\ pc = "shuffle"
    /\ t_val = IntVal(0)
    /\ t_ret = NotCalled
    /\ Idle

SpecShuffleArgs == InitShuffleArgs /\ [][NextShuffle]_vars

\* check_class on every index of the bounded domain
InitClassify ==
    /\ t_val \in CheckClassInputs
    /\ t_ret = NotCalled
    /\ pc = "check_class"
    /\ files = EmptyTree
    /\ source0 = {}
    /\ dirs = {}
    /\ manifest = <<>>
    /\ manifest_exists = TRUE
    /\ root_is_dir = TRUE
    /\ create_train_data = TRUE
    /\ verbose = FALSE
    /\ arg_train_folder = train_folder
    /\ arg_validation_folder = validation_folder
    /\ Idle

NextClassify == CheckClassCall

SpecClassify == InitClassify /\ [][NextClassify]_vars

\* row_generator over a manifest, consumed by a caller that may call it anew
\* at any point
InitRows ==
    /\ manifest_exists \in BOOLEAN
    /\ manifest \in (IF manifest_exists THEN RowManifests ELSE {<<>>})
    /\ pc = "rows"
    /\ files = EmptyTree
    /\ source0 = {}
    /\ dirs = RawTree
    /\ root_is_dir = TRUE
    /\ create_train_data = TRUE
    /\ verbose = FALSE
    /\ arg_train_folder = train_folder
    /\ arg_validation_folder = validation_folder
    /\ t_val = IntVal(0)
    /\ t_ret = NotCalled
    /\ exc = "none"
    /\ mod_i = 1
    /\ gen = NewGenerator
    /\ count = 0
    /\ log = {}
    /\ data_split = DefaultSplit
    /\ arg_data_split = DefaultSplit
    /\ subfolders = {}
    /\ train_class_dir = <<>>
    /\ files_to_move = {}
    /\ hist = EmptyTree
    /\ yielded = <<>>
    /\ stages = <<>>
    /\ made = <<>>

NextRows ==
    \/ RowNext
    \/ RowStop
    \/ RowOpenFails
    \/ RowInvoke

\* the for loop over the generator calls next() until StopIteration
SpecRows ==
    /\ InitRows
    /\ [][NextRows]_vars
    /\ WF_vars(RowNext)
    /\ WF_vars(RowStop)
    /\ WF_vars(RowOpenFails)

\* make_folders_from_labels on a root that may hold a part of the tree of an
\* earlier run
GridDirs == {train_folder, train_folder \o <<"DWARF">>,
             train_folder \o <<"SPIRAL">>, validation_folder,
             validation_folder \o <<"DWARF">>,
             validation_folder \o <<"DWARF", "f1.png">>}

GridFiles == {train_folder \o <<"SPIRAL", "f1.png">>,
              train_folder \o <<"DWARF", "f2.png">>,
              validation_folder \o <<"DWARF", "f1.png", "f1.png">>}

InitScaffold ==
    /\ \E G \in SUBSET GridDirs :
          /\ \A d \in G : Parent(d) \in G \cup {root_dir}
          /\ dirs = RawTree \cup G
    /\ \E P \in SUBSET GridFiles :
          /\ \A p \in P : Parent(p) \in dirs
          /\ files = TreeOf(P)
    /\ source0 = {}
    /\ manifest = <<>>
    /\ manifest_exists = TRUE
    /\ root_is_dir = TRUE
    /\ create_train_data = TRUE
    /\ verbose \in BOOLEAN
    /\ pc = "make_folders"
    /\ arg_train_folder = train_folder
    /\ arg_validation_folder = validation_folder
    /\ t_val = IntVal(0)
    /\ t_ret = NotCalled
    /\ Idle

NextScaffold == ScaffolderCall

SpecScaffold == InitScaffold /\ [][NextScaffold]_vars

----------------------------------------------------------------------------
(* The claims *)

\* The table of the label classifier, on an index given in units of
\* 1 / Scale: the label whose range holds the value, "None" when none does.
TableLabel(m) ==
    IF m < -3 * Scale THEN "ELLIPTICAL"
    ELSE IF m < 0 THEN "LENTICULAR"
    ELSE IF m < 9 * Scale THEN "SPIRAL"
    ELSE IF m <= 10 * Scale THEN "IRREGULAR"
    ELSE IF m = 11 * Scale THEN "DWARF"
    ELSE "None"

\* C1: for every integer index t, handed to check_class as an int or as its
\* decimal text, the call returns ELLIPTICAL when t < -3, LENTICULAR when
\* -3 <= t < 0, SPIRAL when 0 <= t < 9, IRREGULAR when 9 <= t <= 10 and DWARF
\* when t = 11.
C1_IntegerTable ==
    \A t \in -MaxAbsIdx..MaxAbsIdx :
        (pc = "returned" /\ t_val \in {IntVal(t), StrVal(IntText(t))}) =>
            /\ t_ret.exc = "none"
            /\ (t < -3 => t_ret.ret = "ELLIPTICAL")
            /\ (-3 <= t /\ t < 0 => t_ret.ret = "LENTICULAR")
            /\ (0 <= t /\ t < 9 => t_ret.ret = "SPIRAL")
            /\ (9 <= t /\ t <= 10 => t_ret.ret = "IRREGULAR")
            /\ (t = 11 => t_ret.ret = "DWARF")

\* C1 witness: the text "9", the lower end of the IRREGULAR range, was classified
C1_Witness ==
    /\ pc = "returned"
    /\ t_val = StrVal(<<"9">>)
    /\ t_ret.ret = "IRREGULAR"

\* C2: for every numeric index, integer or not, check_class returns without
\* raising the label whose range holds the value itself, and the
\* unclassifiable outcome when no range holds it (above 11, strictly between
\* 10 and 11).
C2_RealTable ==
    (pc = "returned" /\ t_val.kind \in {"int", "float"}) =>
        /\ t_ret.exc = "none"
        /\ t_ret.ret = TableLabel(IF t_val.kind = "int" THEN t_val.num * Scale
                                  ELSE t_val.num)

\* what the running generator yields next
NextRow == row_generator(manifest, gen)

\* a record whose index token is a number
Coercible(row) == Len(row) >= 2 /\ py_int(StrVal(row[2])).ok

\* a record whose index lies in one of the five ranges
Classifiable(row) ==
    Coercible(row) /\ TableLabel(py_int(StrVal(row[2])).val * Scale) # "None"

\* C3: a record whose index is a number outside every range is reported as
\* unclassifiable without raising; the labeler moves no file for it and goes
\* on with the records that follow.
C3_UnclassifiableSkipped ==
    [][(pc = "label" /\ ~NextRow.stop /\ Coercible(NextRow.row)
            /\ ~Classifiable(NextRow.row))
        => (/\ files' = files
            /\ \E m \in log' : m[1] = "Error: Unexpected range for t_val"
            /\ exc' = "none"
            /\ pc' = "label"
            /\ gen' = NextRow.gen)]_vars

\* C4: a record whose index token is not a number is logged and skipped; the
\* labeler goes on with the records that follow and the run is not aborted.
C4_InvalidSkipped ==
    [][(pc = "label" /\ ~NextRow.stop /\ Len(NextRow.row) >= 2
            /\ ~Coercible(NextRow.row))
        => (/\ files' = files
            /\ InvalidTval \in log'
            /\ exc' = "none"
            /\ pc' = "label"
            /\ gen' = NextRow.gen)]_vars

\* the rows row_generator yields over the whole manifest
Yielded == {manifest[j] : j \in SkipComments(manifest, 1)..Len(manifest)}

\* the (record, image folder) pairs that name the source file s
NamedBy(s) ==
    {<<row, i>> \in Yielded \X (1..Len(image_folders)) :
        /\ Len(row) >= 2
        /\ s = data_dir \o <<image_folders[i], image_fname_of(row[1], extensions[i])>>}

\* destRoot/<Label of the record>/<filename> for such a pair
LabelledPath(row, i) ==
    train_folder \o <<TableLabel(py_int(StrVal(row[2])).val * Scale),
                      image_fname_of(row[1], extensions[i])>>

\* C5: after the labeler has run over a manifest whose records all carry a
\* classifiable index, every image file that was in the source directory of
\* an image folder under the filename of some record is at
\* destRoot/<Label of such a record>/<filename> and no longer in the source
\* tree.
C5_LabelledAndMoved ==
    (pc = "shuffle" /\ \A row \in Yielded : Classifiable(row)) =>
        \A s \in source0 :
            NamedBy(s) # {} =>
                /\ s \notin DOMAIN files
                /\ \E pair \in NamedBy(s) :
                      /\ LabelledPath(pair[1], pair[2]) \in DOMAIN files
                      /\ files[LabelledPath(pair[1], pair[2])] = s

\* C6: when the image file of a record is absent from the source directory
\* of the current image folder, the miss is reported, no file is moved for
\* the record and the labeler goes on (stated for records with a
\* classifiable index).
C6_MissReported ==
    [][(pc = "label" /\ ~NextRow.stop /\ Classifiable(NextRow.row)
            /\ data_dir \o <<image_folders[mod_i],
                    image_fname_of(NextRow.row[1], extensions[mod_i])>>
                  \notin DOMAIN files)
        => (/\ files' = files
            /\ <<"File not found",
                 data_dir \o <<image_folders[mod_i],
                    image_fname_of(NextRow.row[1], extensions[mod_i])>>>> \in log'
            /\ pc' = "label"
            /\ gen' = NextRow.gen)]_vars

IsPrefix(d, p) == Len(d) <= Len(p) /\ SubSeq(p, 1, Len(d)) = d

\* the places where the file with identity s is
Locations(s) == {p \in DOMAIN files : files[p] = s}

\* C7: after the labeling stage and after the splitting stage, every image
\* file that was in the source tree when the run started is at exactly one
\* place, in the source tree, the training tree or the validation tree.
C7_ExactlyOnePlace ==
    (pc \in {"shuffle", "done"}) =>
        \A s \in source0 :
            /\ Cardinality(Locations(s)) = 1
            /\ \A p \in Locations(s) :
                  \/ IsPrefix(data_dir, p)
                  \/ IsPrefix(train_folder, p)
                  \/ IsPrefix(validation_folder, p)

\* shuffle_data has read its arguments
Shuffling == pc \in {"shuffle_loop", "shuffle_move", "done", "shuffle_crashed"}

\* the fraction given on the command line lies in the open interval (0, 1)
ValidSplit == 0 < arg_data_split /\ arg_data_split < Scale

\* the class directory d was enumerated and all its drawn files were moved
SplitOver(d) ==
    /\ d \in DOMAIN hist
    /\ ~(pc = "shuffle_move" /\ train_class_dir = d)
    /\ pc # "shuffle_crashed"

C9_ValidationHoldsDrawn ==
    pc = "done" =>
        \A d \in DOMAIN hist :
            LET moved == {validation_folder \o <<Basename(d), Basename(x)>> :
                            x \in hist[d].drawn}
            IN  /\ moved \subseteq DOMAIN files
                /\ Entries(files, dirs, validation_folder \o <<Basename(d)>>) = moved

SplitWarning == <<"Please input a data_split value between 0 and 1 ...", <<>>>>

\* C10: for every fraction outside (0, 1) and either value of the verbosity
\* flag, the splitter logs a warning, splits with the default fraction 0.2
\* and does not raise.
C10_FallbackWarned ==
    (Shuffling /\ ~ValidSplit) =>
        /\ SplitWarning \in log
        /\ data_split = DefaultSplit
        /\ exc = "none"

\* C11: after the scaffolder has run, root/train/<Label> and
\* root/validation/<Label> are directories for every one of the five labels,
\* whatever the verbosity flag.
C11_GridCreated ==
    \A k \in 1..Len(made) :
        \A i \in 1..Len(Labels) :
            /\ train_folder \o <<Labels[i]>> \in made[k]
            /\ validation_folder \o <<Labels[i]>> \in made[k]

\* the first row of m that does not start with '#' (Len(m) + 1: there is none)
FirstRow(m) ==
    CHOOSE i \in 1..Len(m) + 1 :
        /\ i = Len(m) + 1 \/ ~StartsWithHash(m[i])
        /\ \A j \in 1..i - 1 : StartsWithHash(m[j])

SourcePath(row, i) ==
    data_dir \o <<image_folders[i], image_fname_of(row[1], extensions[i])>>

\* the labeler is about to move the file of the next record
MoveAttempt ==
    /\ pc = "label"
    /\ manifest_exists
    /\ ~NextRow.stop
    /\ Classifiable(NextRow.row)
    /\ SourcePath(NextRow.row, mod_i) \in DOMAIN files

\* C13: when the destination path of a record already holds a file, the
\* labeler does not move: the source file stays, the file at the destination
\* is unchanged, the conflict is logged and the batch goes on.
C13_ConflictKept ==
    [][(MoveAttempt /\ LabelledPath(NextRow.row, mod_i) \in DOMAIN files)
        => (/\ files' = files
            /\ \E m \in log' \ log : m[2] = SourcePath(NextRow.row, mod_i)
            /\ exc' = "none"
            /\ pc' = "label")]_vars

\* C14: a move of the labeler either is carried out or its failure,
\* whatever the cause, is caught and logged and the labeler goes on with the
\* next record.
C14_FailureCaught ==
    [][MoveAttempt
        => (/\ exc' = "none"
            /\ pc' = "label"
            /\ gen' = NextRow.gen
            /\ \/ /\ LabelledPath(NextRow.row, mod_i) \in DOMAIN files'
                  /\ files'[LabelledPath(NextRow.row, mod_i)]
                        = files[SourcePath(NextRow.row, mod_i)]
               \/ <<"Failed to move", SourcePath(NextRow.row, mod_i)>> \in log')]_vars

\* C15: the process ends with status 1 when the root is not a directory and
\* with status 0 in every run on a root that is one.
C15_ExitCodes ==
    ExitCode >= 0 => ExitCode = (IF root_is_dir THEN 0 ELSE 1)

\* C16: whenever the labeler or the splitter moves a file into a class
\* directory, train/<Label> or validation/<Label>, that class directory is a
\* directory at the time of the move (the directories of the state after
\* the step are those the move found: make_folder runs before it and the
\* move creates none).
C16_ClassDirExists ==
    [][/\ MoveAttempt =>
            train_folder \o <<TableLabel(py_int(StrVal(NextRow.row[2])).val * Scale)>>
                \in dirs'
       /\ (pc = "shuffle_move" /\ files_to_move' # files_to_move) =>
            validation_folder \o <<Basename(train_class_dir)>> \in dirs']_vars

\* C16 witness: the run is over, a file was labelled SPIRAL, a class the
\* scaffolder made no directory for, and drawn for validation
C16_Witness ==
    /\ pc = "done"
    /\ Len(made) = 1
    /\ train_folder \o <<"SPIRAL">> \notin made[1]
    /\ validation_folder \o <<"SPIRAL">> \in dirs
    /\ \E p \in DOMAIN files : IsPrefix(validation_folder \o <<"SPIRAL">>, p)

\* the calls of __main__ with create_train_data set, in their order
StageOrder == <<"make_folders_from_labels">> \o image_folders \o <<"shuffle_data">>

\* C17: with create_train_data set the calls are made in the order
\* scaffolder, labeler pass of each image folder in turn, splitter, none
\* twice: the scaffolder runs first, a file is moved by the labeler only
\* after the scaffolder and the passes before its own have returned, the
\* splitter starts only after the last pass has returned; with
\* create_train_data unset no call is made and the tree stays as it was.
C17_StageOrder ==
    /\ [](IsPrefix(stages, StageOrder))
    /\ [](~create_train_data =>
            /\ stages = <<>>
            /\ files = TreeOf(source0)
            /\ dirs = (IF root_is_dir THEN RawTree ELSE {}))
    /\ [][/\ made' # made => stages = <<>>
          /\ (pc = "label" /\ files' # files) =>
                stages = SubSeq(StageOrder, 1, mod_i)
          /\ (pc = "shuffle" /\ pc' # pc) =>
                stages = SubSeq(StageOrder, 1, Len(StageOrder) - 1)
          /\ (pc \in {"shuffle_loop", "shuffle_move"}) => stages' = StageOrder]_vars

\* C17 witness: a run went through every stage, labelled a file in the pass
\* of the second image folder and moved a file to the validation tree
C17_Witness ==
    /\ pc = "done"
    /\ stages = StageOrder
    /\ \E p \in DOMAIN files :
          /\ IsPrefix(validation_folder, p)
          /\ IsPrefix(data_dir \o <<image_folders[2]>>, files[p])

\* C18: every call of the scaffolder after the first leaves the set of
\* directories as the first call left it and reports no error; no call
\* removes a directory or touches a file.
C18_Idempotent ==
    /\ [](\A k \in 2..Len(made) :
            /\ made[k] = made[1]
            /\ dirs = made[1]
            /\ ~\E m \in log : m[1] = "mkdir: cannot create directory")
    /\ [][dirs \subseteq dirs' /\ files' = files]_vars

\* C18 witness: the scaffolder was called twice on a root that held files
\* and directories of an earlier run, and the class directories are there
C18_Witness ==
    /\ pc = "make_folders"
    /\ Len(made) = 2
    /\ train_folder \o <<"SPIRAL", "f1.png">> \in DOMAIN files
    /\ validation_folder \o <<"DWARF", "f1.png">> \in dirs
    /\ train_folder \o <<"DWARF">> \in dirs

\* C19: every call of row_generator on a manifest that can be opened comes
\* to its end, and at its end it has yielded the rows from the first one
\* that does not start with '#' to the last row, none for an empty manifest
\* and for one of comment rows only, the same for every call wherever the
\* call before it was left; a manifest that cannot be opened yields nothing
\* and ends the run with a file access error.
C19_FiniteRestartable ==
    /\ []((pc = "rows" /\ manifest_exists /\ gen.phase = "closed") =>
            /\ yielded = SubSeq(manifest, FirstRow(manifest), Len(manifest))
            /\ ((\A j \in 1..Len(manifest) : StartsWithHash(manifest[j]))
                    => yielded = <<>>))
    /\ [](~manifest_exists => yielded = <<>> /\ gen.phase # "passthrough")
    /\ [][mod_i' # mod_i => (gen' = NewGenerator /\ yielded' = <<>>)]_vars
    /\ ((pc = "rows" /\ manifest_exists /\ gen.phase # "closed")
            ~> (gen.phase = "closed"))
    /\ (~manifest_exists ~> (pc = "crashed" /\ exc = "FileNotFoundError"))

\* C19 witness: a second call of the generator ran to the end of a manifest
\* with a comment row at its top and two rows after it
C19_Witness ==
    /\ pc = "rows"
    /\ mod_i = 2
    /\ gen.phase = "closed"
    /\ Len(manifest) = 3
    /\ Len(yielded) = 2

\* the files of class directory d that the splitter has moved away
Relocated(d) == {x \in hist[d].drawn : x \notin DOMAIN files}

\* C20: every file the splitter has moved out of <training root>/<C> is
\* under <validation root>/<C>, for the training root and the validation
\* root the caller passed.
C20_UnderPassedRoot ==
    \A d \in DOMAIN hist :
        \A x \in Relocated(d) :
            \E p \in DOMAIN files :
                /\ files[p] = x
                /\ IsPrefix(arg_validation_folder \o <<Basename(d)>>, p)

\* the (sampleId, image folder) pairs of the records of the manifest
RecordPairs ==
    {<<row[1], i>> : row \in {r \in Yielded : Len(r) >= 2},
                     i \in 1..Len(image_folders)}

\* C21: within one labeling run two distinct (sampleId, modality) pairs never
\* give the same filename, sampleId.png or sampleId_<suffix>.png, and no move
\* of the labeler finds a file at its destination that an earlier move of
\* the run has placed there.
C21_InjectiveNames ==
    /\ [](pc = "label" => \A a \in RecordPairs : \A b \in RecordPairs :
            a # b => image_fname_of(a[1], extensions[a[2]])
                        # image_fname_of(b[1], extensions[b[2]]))
    /\ [][MoveAttempt => LabelledPath(NextRow.row, mod_i) \notin DOMAIN files]_vars

\* the source paths that the records of the manifest name in image folder i
NamedIn(i) == {SourcePath(row, i) : row \in {r \in Yielded : Len(r) >= 2}}

\* C22: a step of the labeler pass of one image folder leaves in place and
\* unchanged every file that is not at <source root>/<that image folder>/
\* <filename of some record>: the files of the other image folders, the
\* source files no record names and the files already in the destination
\* tree.
C22_OnlyNamedFilesChange ==
    [][pc = "label" =>
        \A p \in DOMAIN files :
            p \notin NamedIn(mod_i) => (p \in DOMAIN files' /\ files'[p] = files[p])]_vars

\* C23: a yielded row of fewer than two tokens, a blank line for one, does
\* not abort the labeler: no file is moved for it and the rows after it are
\* still processed.
C23_ShortRowSkipped ==
    [][(pc = "label" /\ manifest_exists /\ ~NextRow.stop /\ Len(NextRow.row) < 2)
        => (/\ files' = files
            /\ exc' = "none"
            /\ pc' = "label"
            /\ gen' = NextRow.gen)]_vars

====
